---- MODULE Spec2Model ----
(***************************************************************************)
(* State-machine model of the WebSocket connection manager                 *)
(* (class WebSocketManager, second listing of src/unnamed/part_001), the   *)
(* verifier authenticateClient (src/src/auth.ts) and the response          *)
(* generator runAgent (src/src/agent.ts).                                  *)
(*                                                                         *)
(* JavaScript objects are modelled as sequences of <<key, value>> pairs in *)
(* insertion order, all values being strings; the value undefined is the   *)
(* string Undefined.  One step of the model is one run-to-completion turn  *)
(* of the Node.js event loop: an event handler, a timer callback, a public *)
(* method call, or the continuation after an await.                        *)
(*                                                                         *)
(* The transport (package ws) behaves as the library documents: a socket   *)
(* handed to the 'connection' listener is OPEN, close() and terminate()    *)
(* move it to CLOSING, the 'close' event is emitted when it becomes        *)
(* CLOSED, an 'error' event is emitted after the library has moved the     *)
(* socket to CLOSING, and inbound frames keep surfacing until 'close'.     *)
(***************************************************************************)
EXTENDS Integers, Sequences, FiniteSets, TLC

\* ------------------------------------------------------------------ bounds
\* number of physical connections that ever arrive
MaxConn == 2
\* number of generator calls that may be in flight at the same time
MaxInflight == 1
\* the same where the order of the calls is looked at
MaxOrderInflight == 2
\* number of runAgent calls in flight where runAgent is looked at alone
MaxAgentCalls == 2

Conn == 1..MaxConn

\* ------------------------------------------------------- JavaScript values
Undefined == "<undefined>"
Null == "<null>"

\* a value used in a condition: undefined, null and "" are falsy
Truthy(v) == v \notin {Undefined, Null, ""}

\* obj[key] on an object given as a sequence of pairs
RECURSIVE Get(_, _)
Get(obj, key) ==
  IF obj = << >> THEN Undefined
  ELSE IF Head(obj)[1] = key THEN Head(obj)[2]
  ELSE Get(Tail(obj), key)

\* JSON.stringify of an object: members whose value is undefined are dropped
RECURSIVE Stringify(_)
Stringify(obj) ==
  IF obj = << >> THEN << >>
  ELSE IF Head(obj)[2] = Undefined THEN Stringify(Tail(obj))
  ELSE <<Head(obj)>> \o Stringify(Tail(obj))

\* new Date().toISOString()
Timestamp == "<ISO-8601>"

\* ------------------------------------------------------------- process.env
DevAlice == "{\"userId\":\"alice\"}"

Environments ==
  { [NODE_ENV |-> "production", DEV_USER_IDENTITY |-> Undefined],
    [NODE_ENV |-> "development", DEV_USER_IDENTITY |-> Undefined],
    [NODE_ENV |-> "development", DEV_USER_IDENTITY |-> DevAlice] }

NoEnv == [NODE_ENV |-> "", DEV_USER_IDENTITY |-> Undefined]

\* userId of the default principal
defaultPrincipal == "test@test.com"
defaultPrincipalString == "{\"userId\":\"test@test.com\"}"

\* JSON.parse of an identity string; a Principal is its userId, null is Null
ParsePrincipal(str) ==
  CASE str = defaultPrincipalString -> defaultPrincipal
    [] str = DevAlice -> "alice"
    [] OTHER -> Null

\* a verifier that admits one token only
authenticateClientByToken(token, e) ==
  IF e.NODE_ENV = "development" /\ token = "valid-token"
  THEN ParsePrincipal(IF Truthy(e.DEV_USER_IDENTITY)
                      THEN e.DEV_USER_IDENTITY ELSE defaultPrincipalString)
  ELSE Null

\* the verifier: the token plays no part in the verdict
authenticateClient(token, e) ==
  IF e.NODE_ENV = "development"
  THEN ParsePrincipal(IF Truthy(e.DEV_USER_IDENTITY)
                      THEN e.DEV_USER_IDENTITY ELSE defaultPrincipalString)
  ELSE Null

\* --------------------------------------------------------- handshake input
\* the Cookie header: Undefined when absent, otherwise its cookie pairs
\* ("" is the header with no pairs)
NoCookieHeader == [present |-> FALSE, pairs |-> << >>]
CookieHeaders ==
  { NoCookieHeader,
    [present |-> TRUE, pairs |-> << >>],
    [present |-> TRUE, pairs |-> << <<"theme", "dark">> >>],
    [present |-> TRUE, pairs |-> << <<"auth_token", "">> >>],
    [present |-> TRUE, pairs |-> << <<"auth_token", "valid-token">> >>] }

\* incoming.headers["cookie"] || "" , as the list of pairs the string holds
RawCookies(h) == IF h.present THEN h.pairs ELSE << >>

\* cookie.parse(rawcookies)["auth_token"]: the first pair of that name
CookieToken(raw) == Get(raw, "auth_token")

\* ---------------------------------------------------------- inbound frames
\* the bytes of one inbound frame: text that is no JSON, the JSON text
\* null, or a JSON object with the given members
NoFrame == [json |-> "none", members |-> << >>]
InvalidJson == [json |-> "invalid", members |-> << >>]
NullJson == [json |-> "null", members |-> << >>]
Obj(members) == [json |-> "object", members |-> members]

ChatFrame == Obj(<< <<"type", "chat">>, <<"input", "Hello, AI!">>,
                    <<"threadId", "thread-123">> >>)
ChatNoInput == Obj(<< <<"type", "chat">>, <<"threadId", "thread-123">> >>)
ChatEmptyInput == Obj(<< <<"type", "chat">>, <<"input", "">>,
                         <<"threadId", "thread-123">> >>)
ChatNoThread == Obj(<< <<"type", "chat">>, <<"input", "Hello, AI!">> >>)
ChatFrameNext == Obj(<< <<"type", "chat">>, <<"input", "And then?">>,
                        <<"threadId", "thread-123">> >>)
PingFrame == Obj(<< <<"type", "ping">> >>)
AuthFrame == Obj(<< <<"type", "auth">>, <<"userId", "mallory">>,
                    <<"threadId", "thread-123">> >>)

InboundFrames ==
  { InvalidJson, NullJson, ChatFrame, ChatNoInput, ChatEmptyInput,
    ChatNoThread, PingFrame, AuthFrame }

\* ------------------------------------------------------------------- state
VARIABLES
  agent,         \* module variable agent of agent.ts
  wssState,      \* the accept listener: "RUNNING" or "CLOSED"
  pingInterval,  \* "null", "active" or "cleared"
  clients,       \* this.clients
  readyState,    \* ws.readyState of each connection ("NONE": not arrived)
  principal,     \* ws.principal (userId, or Undefined)
  isAlive,       \* ws.isAlive: "undefined", "true" or "false"
  handlers,      \* whether the pong/message/close/error listeners are attached
  inflight,      \* generator calls awaiting their result
  hist,          \* history of a session: what registration, activity and
                 \* sweeps came last ("none" before it and after its removal)
  ev             \* the step just taken and what it did to the outside

vars == <<agent, wssState, pingInterval, clients, readyState, principal,
          isAlive, handlers, inflight, hist, ev>>

\* ------------------------------------------------------- effects of a step
NoOut == [s \in Conn |-> << >>]

\* an effect record with nothing done
Quiet(op, s) ==
  [op |-> op, s |-> s,
   cookie |-> NoCookieHeader, \* the Cookie header of a handshake
   env |-> NoEnv,           \* process.env as the verifier read it
   raw |-> NoFrame,         \* the inbound frame handled
   data |-> << >>,          \* the object given to broadcast / sendToUser
   user |-> "",             \* the userId given to sendToUser
   result |-> "",           \* the outcome of a generator call
   out |-> NoOut,           \* strings written with ws.send, per connection
   sendAfterClose |-> {},   \* connections on which ws.send found no open socket
   auth |-> << >>,          \* tokens passed to authenticateClient
   calls |-> << >>,         \* runAgent invocations <<input, userId, threadId>>
   invoked |-> << >>,       \* agent.invoke calls made by runAgent
   settled |-> "",          \* how an agent.invoke call ended
   reason |-> "",           \* what a rejected agent.invoke call threw
   closes |-> {},           \* ws.close calls <<connection, code, reason>>
   deleted |-> {},          \* connections this.clients.delete found present
   pings |-> {},            \* connections on which ws.ping was called
   terminated |-> {}]       \* connections on which ws.terminate was called

\* ws.send(text) as the library does it on a socket in state st: the text
\* goes out on an OPEN socket only
WsSend(e, st, s, text) ==
  IF st = "OPEN"
  THEN [e EXCEPT !.out[s] = Append(@, text)]
  ELSE [e EXCEPT !.sendAfterClose = @ \cup {s}]

\* sendMessage without the readyState test
sendMessageUnguarded(e, st, s, data) == WsSend(e, st, s, Stringify(data))

\* sendMessage testing for a closed socket instead of an open one
sendMessageUnlessClosed(e, st, s, data) ==
  IF st # "CLOSED" THEN WsSend(e, st, s, Stringify(data)) ELSE e

\* sendMessage writing the frame twice
sendMessageTwice(e, st, s, data) ==
  IF st = "OPEN"
  THEN WsSend(WsSend(e, st, s, Stringify(data)), st, s, Stringify(data))
  ELSE e

\* sendMessage(ws, data)
sendMessage(e, st, s, data) ==
  IF st = "OPEN" THEN WsSend(e, st, s, Stringify(data)) ELSE e

ErrorFrame(error) ==
  << <<"type", "error">>, <<"error", error>>, <<"timestamp", Timestamp>> >>

\* the error frame written to every open member
sendErrorToAll(e, st, s, error) ==
  [e EXCEPT !.out = [o \in Conn |->
     IF o \in clients /\ readyState[o] = "OPEN"
     THEN Append(@[o], Stringify(ErrorFrame(error))) ELSE @[o]]]

\* the error frame written, and the connection closed for it
sendErrorAndClose(e, st, s, error) ==
  [sendMessage(e, st, s, ErrorFrame(error)) EXCEPT
     !.closes = @ \cup {<<s, 1003, error>>}]

\* sendError(ws, error)
sendError(e, st, s, error) == sendMessage(e, st, s, ErrorFrame(error))

ConnectedFrame ==
  << <<"type", "connected">>, <<"message", "Connected to AppServer WebSocket">>,
     <<"timestamp", Timestamp>> >>

\* the session registered without a welcome
WelcomeOmitted(e, st, s) == e

\* this.sendMessage(ws, {type: "connected", ...}) of the connection listener
Welcome(e, st, s) == sendMessage(e, st, s, ConnectedFrame)

ChatResponseFrame(response) ==
  << <<"type", "chat_response">>, <<"data", response>>,
     <<"timestamp", Timestamp>> >>

\* the ping sent back as it came
PongFrameEchoesPing == << <<"type", "ping">>, <<"timestamp", Timestamp>> >>

PongFrame == << <<"type", "pong">>, <<"timestamp", Timestamp>> >>

\* ws.close(...) and ws.terminate() as the library does them
WsClose(st) == IF st = "OPEN" THEN "CLOSING" ELSE st
\* terminate() left out: the socket stays as it is
WsTerminateNot(st) == st

WsTerminate(st) == IF st = "CLOSED" THEN "CLOSED" ELSE "CLOSING"

\* -------------------------------------------------------------------- Init
\* the state after new WebSocketManager(server): the listener runs, the
\* heartbeat timer is started, nobody is connected; the agent is not yet set
Init ==
  /\ agent = Null
  /\ wssState = "RUNNING"
  /\ pingInterval = "active"
  /\ clients = {}
  /\ readyState = [s \in Conn |-> "NONE"]
  /\ principal = [s \in Conn |-> Undefined]
  /\ isAlive = [s \in Conn |-> "undefined"]
  /\ handlers = [s \in Conn |-> FALSE]
  /\ inflight = << >>
  /\ hist = [s \in Conn |-> "none"]
  /\ ev = Quiet("init", 0)

\* ---------------------------------------------------------------- handshake
\* the connection the next handshake arrives on
NextConn == Cardinality({s \in Conn : readyState[s] # "NONE"}) + 1

\* the empty-header check left out
NoTokenProvidedNever(h) == FALSE

\* rawcookies === "" : reject before the verifier is asked
NoTokenProvided(h) == RawCookies(h) = << >>

\* the principal check left out: every verdict admits
AdmittedAlways(p) == TRUE

\* the verdict tested against undefined only: null passes
AdmittedUnlessUndefined(p) == p # Undefined

\* if (!principal): whether the verdict p admits the connection
Admitted(p) == Truthy(p)

\* the verifier asked again after its first verdict
AskVerifierTwice(e, token) == [e EXCEPT !.auth = @ \o <<token, token>>]

\* const principal = authenticateClient(cookies["auth_token"])
AskVerifier(e, token) == [e EXCEPT !.auth = Append(@, token)]

\* the principal kept in one place shared by all connections
SetPrincipalShared(f, s, p) == [o \in Conn |-> p]

\* ws.principal = principal
SetPrincipal(f, s, p) == [f EXCEPT ![s] = p]

\* every connection accepted so far registered again
AddAgain(set, s) == set \cup {o \in Conn : o <= s}

\* this.clients.add(ws)
Add(set, s) == set \cup {s}

\* wss.on("connection", (ws, incoming) => ...), with process.env being e
\* when the verifier reads it
Connection(s, h, e) ==
  /\ wssState = "RUNNING"
  /\ s \in Conn /\ s = NextConn
  /\ h \in CookieHeaders /\ e \in Environments
  /\ LET base == [Quiet("connection", s) EXCEPT !.cookie = h, !.env = e]
         token == CookieToken(RawCookies(h))
         p == authenticateClient(token, e)
         asked == AskVerifier(base, token)
         reject(eff) ==
           /\ readyState' = [readyState EXCEPT ![s] = WsClose("OPEN")]
           /\ ev' = [eff EXCEPT !.closes = {<<s, 1008, "Unauthorized">>}]
           /\ UNCHANGED <<clients, principal, isAlive, handlers, hist>>
     IN IF NoTokenProvided(h) THEN reject(base)
        ELSE IF ~Admitted(p) THEN reject(asked)
        ELSE /\ readyState' = [readyState EXCEPT ![s] = "OPEN"]
             /\ principal' = SetPrincipal(principal, s, p)
             /\ isAlive' = [isAlive EXCEPT ![s] = "true"]
             /\ clients' = Add(clients, s)
             /\ handlers' = [handlers EXCEPT ![s] = TRUE]
             /\ hist' = [hist EXCEPT ![s] = "registered"]
             /\ ev' = Welcome(asked, "OPEN", s)
  /\ UNCHANGED <<agent, wssState, pingInterval, inflight>>

\* ------------------------------------------------------------------- agent
Agents == {"agent-1"}

\* setAgent(agentInstance) / initAgent() resolving, for an instance out of
\* agents
setAgentOf(a, agents) ==
  /\ a \in agents
  /\ agent # a
  /\ agent' = a
  /\ ev' = Quiet("setAgent", 0)
  /\ UNCHANGED <<wssState, pingInterval, clients, readyState, principal,
                 isAlive, handlers, inflight, hist>>

\* setAgent(agentInstance) / initAgent() resolving
setAgent(a) == setAgentOf(a, Agents)

\* resetAgent()
resetAgent ==
  /\ agent # Null
  /\ agent' = Null
  /\ ev' = Quiet("resetAgent", 0)
  /\ UNCHANGED <<wssState, pingInterval, clients, readyState, principal,
                 isAlive, handlers, inflight, hist>>

\* ---------------------------------------------------------- inbound frames
\* the validation without the threadId test
ChatInvalidNoThreadCheck(s, message) ==
  \/ ~Truthy(Get(message, "input"))
  \/ ~Truthy(principal[s])

\* the condition of the chat case that sends the validation error
ChatInvalid(s, message) ==
  \/ ~Truthy(Get(message, "input"))
  \/ ~Truthy(principal[s])
  \/ ~Truthy(Get(message, "threadId"))

\* the user taken from the frame instead of the session
RunAgentArgsFromFrame(s, message) ==
  <<Get(message, "input"), Get(message, "userId"), Get(message, "threadId")>>

\* the arguments of the runAgent call made for a chat message
RunAgentArgs(s, message) ==
  <<Get(message, "input"), principal[s], Get(message, "threadId")>>

\* runAgent without its test of the agent
AgentNotInitializedNever == FALSE

\* runAgent: if (!agent) throw new Error("Agent not initialized")
AgentNotInitialized == ~Truthy(agent)
NotInitialized == "Agent not initialized"

\* the caught error passed on to the client
FailedToProcessLeaks(reason) == reason

\* the text sent from the catch block of the chat case, whatever was caught
FailedToProcess(reason) == "Failed to process chat message"

\* handleMessage(ws, message) up to its return or its suspension at the
\* await: the effects, and the call left in flight (if any)
handleMessage(e, s, message) ==
  LET st == readyState[s]
      type == Get(message, "type")
  IN CASE type = "chat" ->
            IF ChatInvalid(s, message)
            THEN [e |-> sendError(e, st, s,
                          "Missing required fields or not authenticated"),
                  pending |-> << >>]
            ELSE LET called == [e EXCEPT !.calls =
                                  Append(@, RunAgentArgs(s, message))]
                 IN IF AgentNotInitialized
                    THEN \* the await rejects at once: the catch block runs
                         [e |-> sendError([called EXCEPT
                                             !.result = NotInitialized],
                                          st, s,
                                          FailedToProcess(NotInitialized)),
                          pending |-> << >>]
                    ELSE [e |-> called,
                          pending |-> <<[ws |-> s, agent |-> agent,
                                         args |-> RunAgentArgs(s, message)]>>]
       [] type = "ping" ->
            [e |-> sendMessage(e, st, s, PongFrame), pending |-> << >>]
       [] OTHER ->
            [e |-> sendError(e, st, s, "Unknown message type"),
             pending |-> << >>]

\* the liveness flag left as it is
MarkAliveNot(f, s) == f

\* the flag of a probed connection left false
MarkAliveUnlessProbed(f, s) ==
  IF f[s] = "false" THEN f ELSE [f EXCEPT ![s] = "true"]

\* one flag for all connections
MarkAliveAll(f, s) == [o \in Conn |-> "true"]

\* ws.isAlive = true
MarkAlive(f, s) == [f EXCEPT ![s] = "true"]

\* history of a session after an inbound frame or a pong
ActiveHist(h) == IF h = "none" THEN "none" ELSE "active"

\* the try block never throwing
MessageThrowsNever(raw) == FALSE

\* whether the try block of the message listener throws: JSON.parse on
\* text that is no JSON, or message.type on null
MessageThrows(raw) == raw.json # "object"

\* the new call put in front of the calls made before
EnqueueFront(q, pending) == pending \o q

\* the calls in flight, in the order of their invocation: runAgent is
\* invoked inside the listener's turn, before anything is awaited
Enqueue(q, pending) == q \o pending

\* ws.on("message", async (data) => ...) for a frame out of frames, at most
\* max generator calls being in flight
OnMessageIn(s, raw, frames, max) ==
  /\ s \in Conn /\ raw \in frames
  /\ handlers[s]
  /\ readyState[s] \in {"OPEN", "CLOSING"}
  /\ LET base == [Quiet("message", s) EXCEPT !.raw = raw]
         r == IF MessageThrows(raw)
              THEN [e |-> sendError(base, readyState[s], s,
                                    "Invalid message format"),
                    pending |-> << >>]
              ELSE handleMessage(base, s, raw.members)
     IN /\ Len(inflight) + Len(r.pending) <= max
        /\ inflight' = Enqueue(inflight, r.pending)
        /\ ev' = r.e
  /\ isAlive' = MarkAlive(isAlive, s)
  /\ hist' = [hist EXCEPT ![s] = ActiveHist(@)]
  /\ UNCHANGED <<agent, wssState, pingInterval, clients, readyState,
                 principal, handlers>>

\* ws.on("message", async (data) => ...)
OnMessage(s, raw) == OnMessageIn(s, raw, InboundFrames, MaxInflight)

\* ws.on("pong", () => ...)
OnPong(s) ==
  /\ s \in Conn
  /\ handlers[s]
  /\ readyState[s] \in {"OPEN", "CLOSING"}
  /\ isAlive' = MarkAlive(isAlive, s)
  /\ hist' = [hist EXCEPT ![s] = ActiveHist(@)]
  /\ ev' = Quiet("pong", s)
  /\ UNCHANGED <<agent, wssState, pingInterval, clients, readyState,
                 principal, handlers, inflight>>

\* ------------------------------------------------------- generator results
RemoveAt(seq, i) == SubSeq(seq, 1, i - 1) \o SubSeq(seq, i + 1, Len(seq))

\* structuredResponse of the invocation: a response, or none at all
Responses == {"Hello, human!", Undefined}
Rejections == {"Agent failed", "timeout"}

\* the continuation of handleMessage after await runAgent(...) resolved
AgentResolved(i, response) ==
  /\ i \in 1..Len(inflight) /\ response \in Responses
  /\ LET s == inflight[i].ws
         base == [Quiet("resolved", s) EXCEPT !.result = response]
     IN ev' = sendMessage(base, readyState[s], s, ChatResponseFrame(response))
  /\ inflight' = RemoveAt(inflight, i)
  /\ UNCHANGED <<agent, wssState, pingInterval, clients, readyState,
                 principal, isAlive, handlers, hist>>

\* the catch block of handleMessage after await runAgent(...) rejected
AgentRejected(i, reason) ==
  /\ i \in 1..Len(inflight) /\ reason \in Rejections
  /\ LET s == inflight[i].ws
         base == [Quiet("rejected", s) EXCEPT !.result = reason]
     IN ev' = sendError(base, readyState[s], s, FailedToProcess(reason))
  /\ inflight' = RemoveAt(inflight, i)
  /\ UNCHANGED <<agent, wssState, pingInterval, clients, readyState,
                 principal, isAlive, handlers, hist>>

\* -------------------------------------------------------- transport events
\* the peer starts the closing handshake or the socket fails: the library
\* moves the socket to CLOSING, no listener runs yet
PeerClosing(s) ==
  /\ s \in Conn
  /\ readyState[s] = "OPEN"
  /\ readyState' = [readyState EXCEPT ![s] = "CLOSING"]
  /\ ev' = Quiet("peerClosing", s)
  /\ UNCHANGED <<agent, wssState, pingInterval, clients, principal,
                 isAlive, handlers, inflight, hist>>

\* the delete left out of a handler
DeleteNothing(set, s) == set

\* the whole Registry dropped instead of one connection
DeleteAll(set, s) == {}

\* removal as from an array, splice(indexOf(ws), 1): an absent connection
\* has index -1 and the last entry goes
DeleteSplice(set, s) ==
  IF s \in set \/ set = {} THEN set \ {s}
  ELSE set \ {CHOOSE x \in set : \A y \in set : y <= x}

\* this.clients.delete(ws)
Delete(set, s) == set \ {s}

\* ws.on("close", () => ...): emitted when the socket becomes CLOSED
OnClose(s) ==
  /\ s \in Conn
  /\ readyState[s] = "CLOSING"
  /\ readyState' = [readyState EXCEPT ![s] = "CLOSED"]
  /\ clients' = IF handlers[s] THEN Delete(clients, s) ELSE clients
  /\ hist' = [hist EXCEPT ![s] = "none"]
  /\ ev' = [Quiet("close", s) EXCEPT !.deleted = clients \ clients']
  /\ UNCHANGED <<agent, wssState, pingInterval, principal, isAlive,
                 handlers, inflight>>

\* the error listener run on a socket that is still open, as when the event
\* is emitted by hand
OnErrorWhileOpen(s) ==
  /\ s \in Conn
  /\ handlers[s]
  /\ readyState[s] \in {"OPEN", "CLOSING"}
  /\ clients' = clients \ {s}
  /\ hist' = [hist EXCEPT ![s] = "none"]
  /\ ev' = [Quiet("error", s) EXCEPT !.deleted = clients \ clients']
  /\ UNCHANGED <<agent, wssState, pingInterval, readyState, principal,
                 isAlive, handlers, inflight>>

\* ws.on("error", (error) => ...): emitted on a socket the library has
\* already moved to CLOSING
OnError(s) ==
  /\ s \in Conn
  /\ handlers[s]
  /\ readyState[s] = "CLOSING"
  /\ clients' = Delete(clients, s)
  /\ hist' = [hist EXCEPT ![s] = "none"]
  /\ ev' = [Quiet("error", s) EXCEPT !.deleted = clients \ clients']
  /\ UNCHANGED <<agent, wssState, pingInterval, readyState, principal,
                 isAlive, handlers, inflight>>

\* --------------------------------------------------------------- heartbeat
\* a sweep that only ever probes
SweepEvictsNever(s) == FALSE

\* a sweep that evicts whoever it finds
SweepEvictsAlways(s) == TRUE

\* a sweep that spares a connection with a generator call in flight
SweepEvictsUnlessPending(s) ==
  /\ isAlive[s] = "false"
  /\ ~\E i \in 1..Len(inflight) : inflight[i].ws = s

\* whether the sweep evicts ws
SweepEvicts(s) == isAlive[s] = "false"

SweptHist(h) ==
  CASE h = "registered" -> "registeredSwept"
    [] h = "active" -> "activeSwept"
    [] OTHER -> h

\* the setInterval callback of startHeartbeat
Heartbeat ==
  /\ pingInterval = "active"
  /\ LET evicted == {s \in clients : SweepEvicts(s)}
         probed == clients \ evicted
     IN /\ clients' = clients \ evicted
        /\ readyState' = [s \in Conn |->
             IF s \in evicted THEN WsTerminate(readyState[s])
             ELSE readyState[s]]
        /\ isAlive' = [s \in Conn |->
             IF s \in probed THEN "false" ELSE isAlive[s]]
        /\ hist' = [s \in Conn |->
             IF s \in probed THEN SweptHist(hist[s]) ELSE hist[s]]
        /\ ev' = [Quiet("heartbeat", 0) EXCEPT !.deleted = clients \ clients',
                                               !.pings = probed,
                                               !.terminated = evicted]
  /\ UNCHANGED <<agent, wssState, pingInterval, principal, handlers,
                 inflight>>

\* ---------------------------------------------------------- public methods
Announcement ==
  << <<"type", "announcement">>, <<"message", "Hello everyone">>,
     <<"timestamp", Timestamp>> >>
BareData == << <<"message", "test">> >>
Payloads == {Announcement, BareData}
UserIds == {defaultPrincipal, "alice"}

\* the sends of a forEach over the clients that satisfy Target
RECURSIVE SendEach(_, _, _)
SendEach(e, targets, text) ==
  IF targets = {} THEN e
  ELSE LET s == CHOOSE x \in targets : \A y \in targets : x <= y
       IN SendEach(WsSend(e, readyState[s], s, text), targets \ {s}, text)

\* broadcast without the readyState test
BroadcastTargetsAll == clients

BroadcastTargets == {s \in clients : readyState[s] = "OPEN"}

\* broadcast(data)
broadcast(data) ==
  /\ data \in Payloads
  /\ ev' = SendEach([Quiet("broadcast", 0) EXCEPT !.data = data],
                    BroadcastTargets, Stringify(data))
  /\ UNCHANGED <<agent, wssState, pingInterval, clients, readyState,
                 principal, isAlive, handlers, inflight, hist>>

\* sendToUser without the principal test
SendToUserTargetsAnyUser(userId) == {s \in clients : readyState[s] = "OPEN"}

SendToUserTargets(userId) ==
  {s \in clients : principal[s] = userId /\ readyState[s] = "OPEN"}

\* sendToUser(userId, data)
sendToUser(userId, data) ==
  /\ userId \in UserIds /\ data \in Payloads
  /\ ev' = SendEach([Quiet("sendToUser", 0) EXCEPT !.data = data,
                                                   !.user = userId],
                    SendToUserTargets(userId), Stringify(data))
  /\ UNCHANGED <<agent, wssState, pingInterval, clients, readyState,
                 principal, isAlive, handlers, inflight, hist>>

\* getClientCount()
getClientCount == Cardinality(clients)

\* the timer left running
ClearIntervalNot(t) == t

\* if (this.pingInterval) clearInterval(this.pingInterval): the field keeps
\* its handle, the timer no longer fires
ClearInterval(t) == IF t = "null" THEN "null" ELSE "cleared"

\* the close() calls left out of shutdown
WsCloseNot(st) == st

\* client.close() on each member
CloseClient(st) == WsClose(st)

\* what wss.close(cb) hands to cb when the server is already closed
NotRunning == "The server is not running"

\* shutdown()
shutdown ==
  /\ pingInterval' = ClearInterval(pingInterval)
  /\ readyState' = [s \in Conn |->
       IF s \in clients THEN CloseClient(readyState[s]) ELSE readyState[s]]
  /\ wssState' = "CLOSED"
  /\ ev' = [Quiet("shutdown", 0) EXCEPT
              !.closes = {<<s, 0, "">> : s \in clients},
              !.result = IF wssState = "CLOSED" THEN NotRunning ELSE ""]
  /\ UNCHANGED <<agent, clients, principal, isAlive, handlers, inflight,
                 hist>>

\* --------------------------------------------------------------------- Next
Next ==
  \/ \E s \in Conn, h \in CookieHeaders, e \in Environments :
       Connection(s, h, e)
  \/ \E a \in Agents : setAgent(a)
  \/ resetAgent
  \/ \E s \in Conn, raw \in InboundFrames : OnMessage(s, raw)
  \/ \E s \in Conn : OnPong(s)
  \/ \E i \in 1..MaxInflight + 1, r \in Responses : AgentResolved(i, r)
  \/ \E i \in 1..MaxInflight + 1, r \in Rejections : AgentRejected(i, r)
  \/ \E s \in Conn : PeerClosing(s)
  \/ \E s \in Conn : OnClose(s)
  \/ \E s \in Conn : OnError(s)
  \/ Heartbeat
  \/ \E d \in Payloads : broadcast(d)
  \/ \E u \in UserIds, d \in Payloads : sendToUser(u, d)
  \/ shutdown

Spec == Init /\ [][Next]_vars

\* the library emits 'close' on every socket that is closing: the closing
\* handshake completes or its timeout destroys the socket
FairSpec == Spec /\ \A s \in Conn : WF_vars(OnClose(s))

\* ----------------------------------------------- parts of the manager
\* The actions left out of a part below change none of the variables its
\* own actions read, or change them as one of its own actions does (a
\* frame sets the liveness flag as a pong does; a sweep removes a member
\* and closes its transport as a transport error does), so the part
\* reaches the same values of those variables as Spec and takes the same
\* steps from them.

\* the sessions' life in the Registry: handshakes, pongs, transport events,
\* sweeps and shutdown (all but agent and inflight)
RegistryNext ==
  \/ \E s \in Conn, h \in CookieHeaders, e \in Environments :
       Connection(s, h, e)
  \/ \E s \in Conn : OnPong(s)
  \/ \E s \in Conn : PeerClosing(s)
  \/ \E s \in Conn : OnClose(s)
  \/ \E s \in Conn : OnError(s)
  \/ Heartbeat
  \/ shutdown

RegistrySpec == Init /\ [][RegistryNext]_vars

FairRegistrySpec == RegistrySpec /\ \A s \in Conn : WF_vars(OnClose(s))

\* the same with the two public send methods
DeliveryNext ==
  \/ \E s \in Conn, h \in CookieHeaders, e \in Environments :
       Connection(s, h, e)
  \/ \E s \in Conn : OnPong(s)
  \/ \E s \in Conn : PeerClosing(s)
  \/ \E s \in Conn : OnClose(s)
  \/ \E s \in Conn : OnError(s)
  \/ Heartbeat
  \/ shutdown
  \/ \E d \in Payloads : broadcast(d)
  \/ \E u \in UserIds, d \in Payloads : sendToUser(u, d)

DeliverySpec == Init /\ [][DeliveryNext]_vars

\* inbound frames and generator calls: all but the sweep, the pong and the
\* public send methods (all but isAlive and hist)
ChatNext ==
  \/ \E s \in Conn, h \in CookieHeaders, e \in Environments :
       Connection(s, h, e)
  \/ \E a \in Agents : setAgent(a)
  \/ resetAgent
  \/ \E s \in Conn, raw \in InboundFrames : OnMessage(s, raw)
  \/ \E i \in 1..MaxInflight + 1, r \in Responses : AgentResolved(i, r)
  \/ \E i \in 1..MaxInflight + 1, r \in Rejections : AgentRejected(i, r)
  \/ \E s \in Conn : PeerClosing(s)
  \/ \E s \in Conn : OnClose(s)
  \/ \E s \in Conn : OnError(s)
  \/ shutdown

ChatSpec == Init /\ [][ChatNext]_vars

\* ------------------------------------------------------------- runAgent
\* the instances installed one after the other
AgentInstances == {"agent-1", "agent-2"}
AgentInputs == {"What is CPT code 99213?", "Hello, AI!"}
AgentUsers == {"user123", "admin"}
AgentThreads == {"thread456"}

\* what agent.invoke resolves to
InvokeResults ==
  { << <<"messages", "CPT 99213 is an office visit code">>,
       <<"structuredResponse", "text_response: CPT 99213">> >>,
    << <<"messages", "no structured response">> >> }
InvokeRejections == {"Agent invocation failed"}

\* the first argument of agent.invoke
InvokeRequest(input) == [messages |-> <<[role |-> "user", content |-> input]>>]

\* context and thread exchanged
InvokeConfigSwapped(userId, threadId) ==
  [context |-> [user_id |-> threadId], configurable |-> [thread_id |-> userId]]

\* the second argument of agent.invoke
InvokeConfig(userId, threadId) ==
  [context |-> [user_id |-> userId], configurable |-> [thread_id |-> threadId]]

\* the last message returned instead of the structured response
ResponseMessages(response) == Get(response, "messages")

\* return response.structuredResponse
StructuredResponse(response) == Get(response, "structuredResponse")

\* runAgent(input, userId, threadId) up to its throw or its await
RunAgent(input, userId, threadId) ==
  /\ input \in AgentInputs /\ userId \in AgentUsers
  /\ threadId \in AgentThreads
  /\ Len(inflight) < MaxAgentCalls
  /\ LET base == [Quiet("runAgent", 0) EXCEPT
                   !.calls = << <<input, userId, threadId>> >>]
         call == [agent |-> agent, request |-> InvokeRequest(input),
                  config |-> InvokeConfig(userId, threadId)]
     IN IF AgentNotInitialized
        THEN /\ ev' = [base EXCEPT !.result = NotInitialized,
                                   !.settled = "rejected",
                                   !.reason = NotInitialized]
             /\ inflight' = inflight
        ELSE /\ ev' = [base EXCEPT !.invoked = <<call>>]
             /\ inflight' = Append(inflight, call)
  /\ UNCHANGED <<agent, wssState, pingInterval, clients, readyState,
                 principal, isAlive, handlers, hist>>

\* runAgent after await agent.invoke(...) resolved
InvokeResolved(i, response) ==
  /\ i \in 1..Len(inflight) /\ response \in InvokeResults
  /\ ev' = [Quiet("returned", 0) EXCEPT
              !.invoked = <<inflight[i]>>,
              !.settled = "resolved",
              !.data = response,
              !.result = StructuredResponse(response)]
  /\ inflight' = RemoveAt(inflight, i)
  /\ UNCHANGED <<agent, wssState, pingInterval, clients, readyState,
                 principal, isAlive, handlers, hist>>

\* runAgent after await agent.invoke(...) rejected: the rejection goes on
\* to the caller
InvokeRejected(i, reason) ==
  /\ i \in 1..Len(inflight) /\ reason \in InvokeRejections
  /\ ev' = [Quiet("threw", 0) EXCEPT
              !.invoked = <<inflight[i]>>,
              !.settled = "rejected",
              !.reason = reason,
              !.result = reason]
  /\ inflight' = RemoveAt(inflight, i)
  /\ UNCHANGED <<agent, wssState, pingInterval, clients, readyState,
                 principal, isAlive, handlers, hist>>

\* agent.ts on its own: agents installed and reset, runAgent called
AgentNext ==
  \/ \E a \in AgentInstances : setAgentOf(a, AgentInstances)
  \/ resetAgent
  \/ \E input \in AgentInputs, u \in AgentUsers, th \in AgentThreads :
       RunAgent(input, u, th)
  \/ \E i \in 1..MaxAgentCalls, r \in InvokeResults : InvokeResolved(i, r)
  \/ \E i \in 1..MaxAgentCalls, r \in InvokeRejections : InvokeRejected(i, r)

AgentSpec == Init /\ [][AgentNext]_vars

\* the manager with several chat frames of one session in flight: handshakes,
\* the agent being set, inbound frames and the results of generator calls
OrderFrames == {ChatFrame, ChatFrameNext, InvalidJson}

OrderNext ==
  \/ \E s \in Conn, h \in CookieHeaders, e \in Environments :
       Connection(s, h, e)
  \/ \E a \in Agents : setAgent(a)
  \/ \E s \in Conn, raw \in OrderFrames :
       OnMessageIn(s, raw, OrderFrames, MaxOrderInflight)
  \/ \E i \in 1..MaxOrderInflight, r \in Responses : AgentResolved(i, r)
  \/ \E i \in 1..MaxOrderInflight, r \in Rejections : AgentRejected(i, r)

OrderSpec == Init /\ [][OrderNext]_vars

\* ================================================================== claims
\* the step just taken is a handshake on connection s
IsConnection(e, s) == e.op = "connection" /\ e.s = s

Unauthorized(s) == {<<s, 1008, "Unauthorized">>}

\* frames written in the step to connections other than s
OthersSilent(e, s) == \A o \in Conn \ {s} : e.out[o] = << >>

\* C1: a handshake for which the verifier returns a principal adds exactly
\* that one connection to the Registry (getClientCount grows by 1) and
\* writes exactly one frame, the connected frame, on it; a handshake for
\* which the verifier returns none registers nothing and is closed with
\* 1008 "Unauthorized".
C1_VerifierDrivenAdmission ==
  [][\A s \in Conn :
      (IsConnection(ev', s) /\ ev'.auth # << >>) =>
        IF Truthy(authenticateClient(ev'.auth[1], ev'.env))
        THEN /\ s \notin clients
             /\ clients' = clients \cup {s}
             /\ Cardinality(clients') = getClientCount + 1
             /\ Len(ev'.out[s]) = 1
             /\ Get(ev'.out[s][1], "type") = "connected"
             /\ OthersSilent(ev', s)
             /\ ev'.closes = {}
        ELSE /\ clients' = clients
             /\ ev'.closes = Unauthorized(s)
             /\ ev'.out = NoOut
             /\ readyState'[s] # "OPEN"]_vars

\* C1 witness: the verifier was asked, returned a principal, and the
\* connection is registered with its welcome written
C1_Witness ==
  /\ ev.op = "connection" /\ ev.auth # << >>
  /\ ev.s \in clients /\ Len(ev.out[ev.s]) = 1
  /\ \E o \in clients : o # ev.s

\* C2: a handshake with an absent or empty Cookie header never adds a
\* Session, is closed with 1008, and gets none of the message, pong, close
\* and error handlers; a connection without handlers never becomes a member.
C2_HandshakeGating ==
  [][\A s \in Conn :
      /\ (IsConnection(ev', s) /\ ev'.cookie.pairs = << >>) =>
            /\ clients' = clients
            /\ s \notin clients'
            /\ ev'.closes = Unauthorized(s)
            /\ readyState'[s] = "CLOSING"
            /\ ~handlers'[s]
            /\ ev'.auth = << >>
            /\ ev'.out = NoOut
      /\ (readyState[s] # "NONE" /\ ~handlers[s]) =>
            (~handlers'[s] /\ s \notin clients')]_vars

\* C2 witness: a handshake without a cookie was rejected while the verifier
\* would have admitted it
C2_Witness ==
  /\ ev.op = "connection" /\ ev.cookie.pairs = << >>
  /\ ev.env.NODE_ENV = "development"
  /\ ev.closes = Unauthorized(ev.s)

\* C3 (as claimed): a handshake whose Cookie header is not empty but holds
\* no auth_token entry, or an empty one, is rejected with 1008 at once: the
\* verifier is not called and no Session is created.
C3_MissingTokenRejected ==
  \A s \in Conn :
    (/\ IsConnection(ev, s)
     /\ ev.cookie.pairs # << >>
     /\ ~Truthy(CookieToken(ev.cookie.pairs))) =>
       /\ ev.auth = << >>
       /\ s \notin clients
       /\ ev.closes = Unauthorized(s)

\* C3 witness of the failing input: in development a handshake without an
\* auth_token entry is registered
C3_Witness ==
  /\ ev.op = "connection" /\ ev.cookie.pairs # << >>
  /\ ~Truthy(CookieToken(ev.cookie.pairs))
  /\ ev.s \in clients

C5_EvictionWindow ==
  [][ev'.op = "heartbeat" =>
      \A s \in clients :
        /\ hist[s] = "registered" =>
             /\ s \in clients'
             /\ isAlive'[s] = "false"
             /\ s \in ev'.pings /\ s \notin ev'.terminated
             /\ readyState'[s] = readyState[s]
        /\ hist[s] = "registeredSwept" =>
             /\ s \notin clients'
             /\ s \in ev'.terminated /\ s \notin ev'.pings
             /\ readyState'[s] = "CLOSING"]_vars

\* C5 witness: the second sweep has evicted a connection that was silent
\* since its registration
C5_Witness ==
  /\ ev.op = "heartbeat"
  /\ \E s \in ev.terminated : hist[s] = "registeredSwept" /\ s \notin clients

\* C6: a member that showed activity (an inbound frame or a pong) since the
\* previous sweep, or that registered since, is neither removed nor
\* terminated by a sweep.
C6_ActiveSurvives ==
  [][ev'.op = "heartbeat" =>
      \A s \in clients :
        (s \notin clients' \/ s \in ev'.terminated) =>
          hist[s] \in {"registeredSwept", "activeSwept"}]_vars

\* C6 witness: a sweep has probed and kept a connection that had shown
\* activity, while it evicted a silent one
C6_Witness ==
  /\ ev.op = "heartbeat"
  /\ \E s \in ev.pings : hist[s] = "activeSwept" /\ s \in clients
  /\ ev.terminated # {}

\* number of frames written in a step
RECURSIVE CountOut(_, _)
CountOut(e, S) ==
  IF S = {} THEN 0
  ELSE LET s == CHOOSE x \in S : TRUE
       IN Len(e.out[s]) + CountOut(e, S \ {s})

\* nothing but ev changes in the step
StateUnchanged ==
  UNCHANGED <<agent, wssState, pingInterval, clients, readyState,
              principal, isAlive, handlers, inflight, hist>>

\* C7: broadcast(F) writes F once to every member with an open transport
\* and nothing to anyone else, N - M writes in all; no send is attempted on
\* a transport that is not open, so nothing throws, and no state changes.
C7_BroadcastCompleteness ==
  [][ev'.op = "broadcast" =>
      /\ \A s \in Conn :
           ev'.out[s] = IF s \in clients /\ readyState[s] = "OPEN"
                        THEN <<Stringify(ev'.data)>> ELSE << >>
      /\ CountOut(ev', Conn) =
           Cardinality(clients)
             - Cardinality({s \in clients : readyState[s] # "OPEN"})
      /\ ev'.sendAfterClose = {}
      /\ StateUnchanged]_vars

\* C7 witness: a broadcast reached an open member and skipped a closing one
C7_Witness ==
  /\ ev.op = "broadcast"
  /\ \E s \in clients : readyState[s] # "OPEN" /\ ev.out[s] = << >>
  /\ \E s \in clients : Len(ev.out[s]) = 1

\* C8: sendToUser(U, F) writes F once to every member whose principal is U
\* and whose transport is open, and nothing to anyone else; for a user
\* without a session it writes nothing and nothing throws.
C8_AddressedDelivery ==
  [][ev'.op = "sendToUser" =>
      /\ \A s \in Conn :
           ev'.out[s] = IF /\ s \in clients
                           /\ principal[s] = ev'.user
                           /\ readyState[s] = "OPEN"
                        THEN <<Stringify(ev'.data)>> ELSE << >>
      /\ ev'.sendAfterClose = {}
      /\ StateUnchanged]_vars

\* C8 witness: of two open members the one of user U got F, the other not
C8_Witness ==
  /\ ev.op = "sendToUser"
  /\ \E s, o \in clients :
       /\ readyState[s] = "OPEN" /\ readyState[o] = "OPEN"
       /\ principal[s] = ev.user /\ principal[o] # ev.user
       /\ Len(ev.out[s]) = 1 /\ ev.out[o] = << >>

\* the step handled, on member s, a chat frame with input and threadId
IsValidChat(e, s) ==
  /\ e.op = "message" /\ e.s = s
  /\ e.raw.json = "object"
  /\ Get(e.raw.members, "type") = "chat"
  /\ Truthy(Get(e.raw.members, "input"))
  /\ Truthy(Get(e.raw.members, "threadId"))

\* the step invoked the generator once, with the frame's input and
\* threadId and the session's userId
InvokedOnce(e, s) ==
  e.calls = << <<Get(e.raw.members, "input"), principal[s],
                 Get(e.raw.members, "threadId")>> >>

\* the reply frame written to s is a chat_response carrying the result
IsChatResponse(text, result) ==
  /\ Get(text, "type") = "chat_response"
  /\ Get(text, "data") = result

\* C9 (as claimed): a well-formed chat frame on a member invokes the
\* generator exactly once with (input, userId of the session, threadId);
\* when the call resolves, exactly one chat_response with the result is
\* written to the originating session and nothing to any other.
C9_ChatAnsweredOnce ==
  [][/\ \A s \in clients : IsValidChat(ev', s) => InvokedOnce(ev', s)
     /\ ev'.op = "resolved" =>
          /\ Len(ev'.out[ev'.s]) = 1
          /\ IsChatResponse(ev'.out[ev'.s][1], ev'.result)
          /\ OthersSilent(ev', ev'.s)]_vars

\* C9 (amended): ... when the call resolves, exactly one chat_response with
\* the result is written to the originating session if its transport is
\* open at that moment, and none otherwise; nothing is written to others.
C9_ChatAnsweredIfOpen ==
  [][/\ \A s \in clients : IsValidChat(ev', s) => InvokedOnce(ev', s)
     /\ ev'.op = "resolved" =>
          /\ IF readyState[ev'.s] = "OPEN"
             THEN /\ Len(ev'.out[ev'.s]) = 1
                  /\ IsChatResponse(ev'.out[ev'.s][1], ev'.result)
             ELSE ev'.out[ev'.s] = << >>
          /\ OthersSilent(ev', ev'.s)
          /\ ev'.calls = << >>]_vars

\* C9 witness: a call resolved and its chat_response went to the
\* originating session while another member got nothing
C9_Witness ==
  /\ ev.op = "resolved"
  /\ Len(ev.out[ev.s]) = 1
  /\ \E o \in clients : o # ev.s /\ readyState[o] = "OPEN"

\* the step handled, on s, a chat frame that fails the validation
IsInvalidChat(e, s) ==
  /\ e.op = "message" /\ e.s = s
  /\ e.raw.json = "object"
  /\ Get(e.raw.members, "type") = "chat"
  /\ \/ ~Truthy(Get(e.raw.members, "input"))
     \/ ~Truthy(Get(e.raw.members, "threadId"))
     \/ ~Truthy(principal[s])

MissingFields == "Missing required fields or not authenticated"

IsErrorFrame(text, message) ==
  /\ Get(text, "type") = "error"
  /\ Get(text, "error") = message

\* C10 (as claimed): a chat frame without input, with an empty input,
\* without threadId, or on a session without principal gets an error frame
\* "Missing required fields or not authenticated" written to its session,
\* and the generator is not invoked for it.
C10_ValidationError ==
  [][\A s \in Conn :
      IsInvalidChat(ev', s) =>
        /\ Len(ev'.out[s]) = 1
        /\ IsErrorFrame(ev'.out[s][1], MissingFields)
        /\ ev'.calls = << >>
        /\ inflight' = inflight]_vars

\* C10 (amended): ... the error frame is written if the session's transport
\* is open, nothing is written otherwise; either way the generator is not
\* invoked and nothing goes to another session.
C10_ValidationErrorIfOpen ==
  [][\A s \in Conn :
      IsInvalidChat(ev', s) =>
        /\ IF readyState[s] = "OPEN"
           THEN /\ Len(ev'.out[s]) = 1
                /\ IsErrorFrame(ev'.out[s][1], MissingFields)
           ELSE ev'.out[s] = << >>
        /\ OthersSilent(ev', s)
        /\ ev'.calls = << >>
        /\ inflight' = inflight]_vars

\* C10 witness: a chat frame without threadId was answered with the error
C10_Witness ==
  /\ ev.op = "message" /\ ev.raw = ChatNoThread
  /\ Len(ev.out[ev.s]) = 1
  /\ IsErrorFrame(ev.out[ev.s][1], MissingFields)

\* the step is the catch block of the chat case running for session s: the
\* generator call rejected, at once (no agent set) or after the await
IsRejection(e, s) ==
  /\ e.s = s
  /\ \/ e.op = "rejected"
     \/ e.op = "message" /\ e.calls # << >> /\ e.result = NotInitialized

FailedMessage == "Failed to process chat message"

\* no member of the frame carries the reason of the rejection
NoDetail(text, reason) == \A i \in 1..Len(text) : text[i][2] # reason

\* C11 (as claimed): when the generator rejects for a chat frame, exactly
\* one error frame "Failed to process chat message" is written to the
\* originating session, the same for every reason, no chat_response is
\* written, and the session stays in the Registry with its transport as it
\* was.
C11_RejectionReported ==
  [][\A s \in Conn :
      IsRejection(ev', s) =>
        /\ Len(ev'.out[s]) = 1
        /\ IsErrorFrame(ev'.out[s][1], FailedMessage)
        /\ NoDetail(ev'.out[s][1], ev'.result)
        /\ OthersSilent(ev', s)
        /\ clients' = clients /\ readyState' = readyState]_vars

\* C11 (amended): when the generator rejects for a chat frame, the error
\* frame "Failed to process chat message", the same for every reason and
\* without the reason in it, is written once to the originating session if
\* its transport is open at that moment and nothing is written otherwise;
\* no chat_response is written, nothing goes to another session, and the
\* Registry and every transport state are left as they were.
C11_RejectionReportedIfOpen ==
  [][\A s \in Conn :
      IsRejection(ev', s) =>
        /\ IF readyState[s] = "OPEN"
           THEN /\ Len(ev'.out[s]) = 1
                /\ IsErrorFrame(ev'.out[s][1], FailedMessage)
                /\ Len(ev'.out[s][1]) = 3
                /\ NoDetail(ev'.out[s][1], ev'.result)
           ELSE ev'.out[s] = << >>
        /\ OthersSilent(ev', s)
        /\ ev'.closes = {} /\ ev'.terminated = {} /\ ev'.deleted = {}
        /\ clients' = clients /\ readyState' = readyState]_vars

\* C11 witness: an awaited call rejected and the generic error frame went
\* to its session, which is still an open member
C11_Witness ==
  /\ ev.op = "rejected" /\ ev.result = "timeout"
  /\ Len(ev.out[ev.s]) = 1
  /\ IsErrorFrame(ev.out[ev.s][1], FailedMessage)
  /\ ev.s \in clients /\ readyState[ev.s] = "OPEN"

\* the step handled, on session a, a frame that fails to decode or a chat
\* frame that fails the validation
IsDecodeOrValidationFailure(e, a) ==
  /\ e.op = "message" /\ e.s = a
  /\ e.raw.json # "object" \/ IsInvalidChat(e, a)

\* C12: a decode failure or validation failure on session A leaves the
\* Registry membership, principal, liveness flag and transport state of
\* every other session B as they were and writes no frame to B; what is
\* written goes to A only, and B is a target of broadcast and of sendToUser
\* afterwards exactly if it was one before.
C12_FailureIsolated ==
  [][\A a \in Conn :
      IsDecodeOrValidationFailure(ev', a) =>
        /\ \A b \in Conn \ {a} :
             /\ (b \in clients') = (b \in clients)
             /\ principal'[b] = principal[b]
             /\ isAlive'[b] = isAlive[b]
             /\ readyState'[b] = readyState[b]
             /\ ev'.out[b] = << >>
             /\ (b \in BroadcastTargets') = (b \in BroadcastTargets)
             /\ \A u \in UserIds :
                  (b \in SendToUserTargets(u)') = (b \in SendToUserTargets(u))
        /\ Len(ev'.out[a]) <= 1
        /\ \A i \in 1..Len(ev'.out[a]) : Get(ev'.out[a][i], "type") = "error"
        /\ ev'.closes = {} /\ ev'.terminated = {} /\ ev'.deleted = {}]_vars

\* C12 witness: a frame that is no JSON got its error on session A while
\* another open member B, still a broadcast target, got nothing
C12_Witness ==
  /\ ev.op = "message" /\ ev.raw = InvalidJson
  /\ Len(ev.out[ev.s]) = 1
  /\ \E b \in BroadcastTargets : b # ev.s /\ ev.out[b] = << >>

\* the step ran a per-message error path for session s: the frame did not
\* parse, its type is unknown, the chat validation failed, or the generator
\* rejected
IsErrorPath(e, s) ==
  \/ IsRejection(e, s)
  \/ /\ e.op = "message" /\ e.s = s
     /\ \/ e.raw.json # "object"
        \/ Get(e.raw.members, "type") \notin {"chat", "ping"}
        \/ IsInvalidChat(e, s)

\* C13: no per-message error path closes or terminates the transport of
\* its session or removes the session from the Registry, and the listeners
\* stay attached: while the transport is not closed, the session is served
\* a next ping and (a generator call being possible) a next chat.
C13_ErrorsKeepSession ==
  /\ [][\A s \in Conn :
         IsErrorPath(ev', s) =>
           /\ clients' = clients
           /\ readyState' = readyState
           /\ handlers' = handlers /\ handlers'[s]
           /\ ev'.closes = {} /\ ev'.terminated = {} /\ ev'.deleted = {}]_vars
  /\ [](\A s \in Conn :
          (IsErrorPath(ev, s) /\ readyState[s] # "CLOSED") =>
             /\ ENABLED OnMessage(s, PingFrame)
             /\ Len(inflight) < MaxInflight => ENABLED OnMessage(s, ChatFrame))

\* C13 witness: a frame of unknown type was refused with an error frame and
\* its session is still an open member with its listeners attached
C13_Witness ==
  /\ ev.op = "message" /\ ev.raw = AuthFrame
  /\ Len(ev.out[ev.s]) = 1 /\ Get(ev.out[ev.s][1], "type") = "error"
  /\ ev.s \in clients /\ readyState[ev.s] = "OPEN" /\ handlers[ev.s]

C15_ShutdownStopsHeartbeat ==
  /\ [][ev'.op = "shutdown" =>
         /\ pingInterval' # "active"
         /\ ev'.closes = {<<s, 0, "">> : s \in clients}
         /\ \A s \in clients : s \in clients' /\ readyState'[s] = "CLOSING"
         /\ wssState' = "CLOSED"]_vars
  /\ [][wssState = "CLOSED" =>
         /\ pingInterval' # "active"
         /\ ev'.op # "heartbeat"
         /\ ev'.pings = {} /\ ev'.terminated = {}]_vars

\* C15 witness: shutdown() ran while a probed member, which the next sweep
\* would have evicted, was registered; it is closing and still a member
C15_Witness ==
  /\ ev.op = "shutdown" /\ pingInterval = "cleared" /\ wssState = "CLOSED"
  /\ \E s \in clients :
       /\ isAlive[s] = "false" /\ readyState[s] = "CLOSING"
       /\ <<s, 0, "">> \in ev.closes

\* C16: no frame is ever written to a transport that is not open: ws.send
\* is never called on one, a step writes only to connections that are open;
\* a send for a session whose transport is not open (the reply to a frame,
\* the result or the failure of a generator call) writes nothing and leaves
\* the Registry, the transports and the principals alone, and broadcast and
\* sendToUser change no state at all.
C16_WritesOnlyWhenOpen ==
  [][/\ ev'.sendAfterClose = {}
     /\ \A s \in Conn : readyState'[s] # "OPEN" => ev'.out[s] = << >>
     /\ ev'.op \in {"broadcast", "sendToUser"} => StateUnchanged
     /\ (ev'.op \in {"message", "resolved", "rejected"}
           /\ readyState[ev'.s] # "OPEN") =>
          /\ ev'.out = NoOut
          /\ clients' = clients /\ readyState' = readyState
          /\ principal' = principal /\ handlers' = handlers]_vars

\* C16 witness: the result of a generator call arrived for a session whose
\* transport was closing, and nothing was written
C16_Witness ==
  /\ ev.op = "resolved" /\ ev.result = "Hello, human!"
  /\ readyState[ev.s] = "CLOSING"
  /\ ev.out = NoOut /\ ev.sendAfterClose = {}

\* the step handled a ping frame on session s
IsPingFrame(e, s) ==
  /\ e.op = "message" /\ e.s = s
  /\ e.raw.json = "object" /\ Get(e.raw.members, "type") = "ping"

\* C17 (as claimed): a ping frame is always answered, in the step that
\* handles it, with one pong frame written to the originating session only;
\* the Registry and every principal are unchanged and no generator call is
\* made.
C17_PingAnswered ==
  [][\A s \in Conn :
      IsPingFrame(ev', s) =>
        /\ Len(ev'.out[s]) = 1
        /\ Get(ev'.out[s][1], "type") = "pong"
        /\ OthersSilent(ev', s)
        /\ clients' = clients /\ principal' = principal
        /\ ev'.calls = << >> /\ inflight' = inflight]_vars

\* C17 (amended): a ping frame is answered, in the step that handles it,
\* with one pong frame written to the originating session only if that
\* session's transport is open, and with nothing if it is closing; the
\* Registry, every principal and every transport are unchanged and no
\* generator call is made.
C17_PingAnsweredIfOpen ==
  [][\A s \in Conn :
      IsPingFrame(ev', s) =>
        /\ IF readyState[s] = "OPEN"
           THEN /\ Len(ev'.out[s]) = 1
                /\ Get(ev'.out[s][1], "type") = "pong"
                /\ Get(ev'.out[s][1], "timestamp") = Timestamp
           ELSE ev'.out[s] = << >>
        /\ OthersSilent(ev', s)
        /\ clients' = clients /\ principal' = principal
        /\ readyState' = readyState
        /\ ev'.calls = << >> /\ inflight' = inflight]_vars

\* C17 witness: a ping was answered with a pong while a generator call was
\* in flight and another member was open
C17_Witness ==
  /\ ev.op = "message" /\ ev.raw = PingFrame
  /\ Len(ev.out[ev.s]) = 1 /\ Get(ev.out[ev.s][1], "type") = "pong"
  /\ inflight # << >>
  /\ \E o \in clients : o # ev.s /\ readyState[o] = "OPEN"

\* the step handled, on s, a frame whose text is no JSON
IsParseFailure(e, s) ==
  e.op = "message" /\ e.s = s /\ e.raw.json = "invalid"

\* the step handled, on s, a frame that is no message object at all: text
\* that is no JSON, or the JSON text null
IsDecodeFailure(e, s) ==
  e.op = "message" /\ e.s = s /\ e.raw.json # "object"

\* the step handled, on s, a message whose type is neither chat nor ping
IsUnknownType(e, s) ==
  /\ e.op = "message" /\ e.s = s
  /\ e.raw.json = "object"
  /\ Get(e.raw.members, "type") \notin {"chat", "ping"}

InvalidFormat == "Invalid message format"
UnknownType == "Unknown message type"

\* exactly one frame was written to s, the error frame with this message
AnsweredWithError(e, s, message) ==
  /\ Len(e.out[s]) = 1
  /\ IsErrorFrame(e.out[s][1], message)

\* C18 (as claimed): a frame that fails to parse is answered with the error
\* frame "Invalid message format", a parsed frame whose type is neither chat
\* nor ping with the error frame "Unknown message type"; in neither case is
\* the generator invoked or the session closed.
C18_BadFrameAnswered ==
  [][\A s \in Conn :
      /\ IsParseFailure(ev', s) => AnsweredWithError(ev', s, InvalidFormat)
      /\ IsUnknownType(ev', s) => AnsweredWithError(ev', s, UnknownType)
      /\ (IsParseFailure(ev', s) \/ IsUnknownType(ev', s)) =>
           /\ ev'.calls = << >> /\ inflight' = inflight
           /\ ev'.closes = {} /\ readyState'[s] = readyState[s]]_vars

\* C18 (amended): on a session whose transport is open, a frame that does
\* not decode to a message object (text that is no JSON, or the JSON text
\* null) is answered with the error frame "Invalid message format" and a
\* message whose type is neither chat nor ping with the error frame "Unknown
\* message type"; on a closing transport nothing is written; in no case is
\* the generator invoked, the session closed or another session written to.
C18_BadFrameAnsweredIfOpen ==
  [][\A s \in Conn :
      /\ IsDecodeFailure(ev', s) =>
           IF readyState[s] = "OPEN"
           THEN AnsweredWithError(ev', s, InvalidFormat)
           ELSE ev'.out[s] = << >>
      /\ IsUnknownType(ev', s) =>
           IF readyState[s] = "OPEN"
           THEN AnsweredWithError(ev', s, UnknownType)
           ELSE ev'.out[s] = << >>
      /\ (IsDecodeFailure(ev', s) \/ IsUnknownType(ev', s)) =>
           /\ OthersSilent(ev', s)
           /\ ev'.calls = << >> /\ inflight' = inflight
           /\ ev'.closes = {} /\ ev'.terminated = {}
           /\ readyState' = readyState /\ clients' = clients]_vars

\* C18 witness: text that is no JSON was answered with "Invalid message
\* format" on a session that stays an open member
C18_Witness ==
  /\ ev.op = "message" /\ ev.raw = InvalidJson
  /\ AnsweredWithError(ev, ev.s, InvalidFormat)
  /\ ev.s \in clients /\ readyState[ev.s] = "OPEN"

\* the step is the close listener or the error listener of connection a
IsRemoval(e, a) == e.op \in {"close", "error"} /\ e.s = a

\* C19: a close notification or a transport error notification for A
\* removes exactly A from the Registry (getClientCount drops by one if A was
\* a member, and is unchanged if not) and leaves membership, principal,
\* liveness flag and transport of every other connection untouched.
C19_RemovalIsLocal ==
  [][\A a \in Conn :
      (IsRemoval(ev', a) /\ handlers[a]) =>
        /\ clients' = clients \ {a}
        /\ Cardinality(clients') =
             IF a \in clients THEN getClientCount - 1 ELSE getClientCount
        /\ ev'.deleted = clients \cap {a}
        /\ \A b \in Conn \ {a} :
             /\ (b \in clients') = (b \in clients)
             /\ principal'[b] = principal[b]
             /\ isAlive'[b] = isAlive[b]
             /\ readyState'[b] = readyState[b]
        /\ ev'.out = NoOut /\ ev'.closes = {} /\ ev'.terminated = {}]_vars

\* C19 witness: the error listener removed a member while another member
\* stayed registered and open
C19_Witness ==
  /\ ev.op = "error" /\ ev.deleted = {ev.s}
  /\ \E b \in clients : b # ev.s /\ readyState[b] = "OPEN"

\* C20: removing a connection that is not in the Registry (a close
\* notification after a transport error or after a heartbeat eviction, an
\* error notification after an eviction) leaves the Registry as it is and
\* throws nothing; the heartbeat only ever evicts members; whatever the
\* order of close, error and eviction, a removed connection is not a member
\* afterwards.
C20_RemovalIdempotent ==
  [][/\ \A a \in Conn :
          IsRemoval(ev', a) =>
            /\ a \notin clients => (clients' = clients /\ ev'.deleted = {})
            /\ a \notin clients'
     /\ ev'.op = "heartbeat" =>
          /\ ev'.terminated \subseteq clients
          /\ clients' = clients \ ev'.terminated]_vars

\* C20 witness: the close notification of a connection with listeners
\* arrived when it was no longer a member, another member being registered
C20_Witness ==
  /\ ev.op = "close" /\ handlers[ev.s] /\ ev.deleted = {}
  /\ clients # {}

\* the text carries a type member and a timestamp member
HasEnvelope(text) ==
  /\ Get(text, "type") # Undefined
  /\ Get(text, "timestamp") # Undefined

\* C21 (as claimed): every frame written to a peer carries a type and a
\* timestamp, the frames written by broadcast and sendToUser included.
C21_UniformEnvelope ==
  \A s \in Conn : \A i \in 1..Len(ev.out[s]) : HasEnvelope(ev.out[s][i])

\* C21 witness of the failing input: broadcast of an object without type
\* and timestamp reached an open member as it was given
C21_Witness ==
  /\ ev.op = "broadcast" /\ ev.data = BareData
  /\ \E s \in clients :
       /\ ev.out[s] = <<Stringify(BareData)>>
       /\ ~HasEnvelope(ev.out[s][1])

\* C22: in every reachable state every member of the Registry carries a
\* principal; a connection enters the Registry only in its handshake, after
\* the verifier was called with its credential and returned a principal,
\* which is the one the session carries.
C22_MembersAuthenticated ==
  /\ [](\A s \in clients : Truthy(principal[s]))
  /\ [][\A s \in clients' \ clients :
         /\ IsConnection(ev', s)
         /\ ev'.auth = <<CookieToken(RawCookies(ev'.cookie))>>
         /\ Truthy(authenticateClient(ev'.auth[1], ev'.env))
         /\ principal'[s] = authenticateClient(ev'.auth[1], ev'.env)]_vars

\* C22 witness: a handshake was admitted with the principal the verifier
\* took from the environment, next to a member with another principal
C22_Witness ==
  /\ ev.op = "connection" /\ ev.s \in clients
  /\ principal[ev.s] = "alice"
  /\ \E o \in clients : principal[o] = defaultPrincipal

C24_SweepTreatsEachOnce ==
  [][ev'.op = "heartbeat" =>
      \A s \in Conn :
        IF s \notin clients
        THEN /\ s \notin ev'.pings /\ s \notin ev'.terminated
             /\ s \notin clients'
             /\ isAlive'[s] = isAlive[s] /\ readyState'[s] = readyState[s]
        ELSE IF isAlive[s] = "false"
        THEN /\ s \notin clients' /\ s \in ev'.deleted
             /\ s \in ev'.terminated /\ s \notin ev'.pings
             /\ readyState'[s] = "CLOSING"
             /\ isAlive'[s] = "false"
        ELSE /\ s \in clients' /\ s \notin ev'.deleted
             /\ s \in ev'.pings /\ s \notin ev'.terminated
             /\ isAlive'[s] = "false"
             /\ readyState'[s] = readyState[s]]_vars

\* C24 witness: one sweep evicted a member whose flag was false and probed
\* another member
C24_Witness ==
  /\ ev.op = "heartbeat"
  /\ \E a \in ev.terminated, b \in ev.pings :
       /\ a \notin clients /\ readyState[a] = "CLOSING"
       /\ b \in clients /\ isAlive[b] = "false" /\ readyState[b] = "OPEN"

\* the step is the continuation of a generator call made for session s
IsCompletion(e, s) == e.op \in {"resolved", "rejected"} /\ e.s = s

\* C25: when a generator call completes (resolves or rejects) for a session
\* whose transport is no longer open (closing or closed: the client closed,
\* an error came, the heartbeat evicted it, or shutdown() ran), nothing is
\* written to that session or to any other, ws.send is not called, and the
\* Registry and the transports are unchanged by the completion.
C25_LateCompletionDropped ==
  [][\A s \in Conn :
      (IsCompletion(ev', s) /\ readyState[s] # "OPEN") =>
        /\ ev'.out = NoOut
        /\ ev'.sendAfterClose = {}
        /\ ev'.closes = {} /\ ev'.terminated = {} /\ ev'.deleted = {}
        /\ clients' = clients /\ readyState' = readyState
        /\ Len(inflight') = Len(inflight) - 1]_vars

\* C25 witness: a generator call rejected after its session had closed and
\* left the Registry, another member being open; nothing was written
C25_Witness ==
  /\ ev.op = "rejected"
  /\ readyState[ev.s] = "CLOSED" /\ ev.s \notin clients
  /\ ev.out = NoOut
  /\ \E o \in clients : readyState[o] = "OPEN"

\* the generator call made for the chat frame handled in step e on s
CallOf(e, s) ==
  [ws |-> s, agent |-> agent,
   args |-> <<Get(e.raw.members, "input"), principal[s],
              Get(e.raw.members, "threadId")>>]

C27_AnyFrameIsActivity ==
  [][\A s \in Conn :
      /\ (ev'.op = "message" /\ ev'.s = s) => isAlive'[s] = "true"
      /\ (isAlive[s] = "true" /\ ev'.op # "heartbeat") => isAlive'[s] = "true"
      /\ (ev'.op = "heartbeat" /\ s \in clients /\ isAlive[s] = "true") =>
           /\ s \in clients' /\ s \notin ev'.terminated
           /\ readyState'[s] = readyState[s]]_vars

\* C27 witness: a probed member sent text that is no JSON, and its flag is
\* true again while the other probed member's is still false
C27_Witness ==
  /\ ev.op = "message" /\ ev.raw = InvalidJson
  /\ ev.s \in clients /\ isAlive[ev.s] = "true"
  /\ hist[ev.s] = "active"
  /\ \E o \in clients : isAlive[o] = "false"

\* C28: the liveness flag of a session changes in three ways only: it is
\* set to true when the session is registered, set to true by an inbound
\* frame or a pong on that session, and set to false by a sweep that probes
\* that session.  Sends, broadcast, sendToUser, the completion of a
\* generator call, shutdown, close and error notifications and every event
\* on another session leave it as it is.
C28_LivenessFlagWriters ==
  [][/\ \A s \in Conn :
          isAlive'[s] # isAlive[s] =>
            \/ IsConnection(ev', s) /\ s \in clients' /\ isAlive'[s] = "true"
            \/ /\ ev'.op \in {"message", "pong"} /\ ev'.s = s
               /\ isAlive'[s] = "true"
            \/ /\ ev'.op = "heartbeat" /\ s \in ev'.pings
               /\ isAlive'[s] = "false"
     /\ ev'.op \in {"broadcast", "sendToUser", "resolved", "rejected",
                    "shutdown", "close", "error", "peerClosing",
                    "setAgent", "resetAgent"} => isAlive' = isAlive]_vars

\* C28 witness: a pong set the flag of its session to true while the flag
\* of the other probed member stayed false
C28_Witness ==
  /\ ev.op = "pong" /\ isAlive[ev.s] = "true" /\ ev.s \in clients
  /\ \E o \in clients : o # ev.s /\ isAlive[o] = "false"

\* C29: the sweep that evicts session A writes no frame and sends no close
\* code to anybody; A's transport is not open from the eviction on, and no
\* frame is ever written to a transport that is not open, so nothing
\* reaches A at or after the eviction; a member whose flag was not false is
\* neither removed nor terminated, and no principal changes.
C29_EvictionSilentAndLocal ==
  [][/\ ev'.op = "heartbeat" =>
          /\ ev'.out = NoOut /\ ev'.closes = {} /\ ev'.sendAfterClose = {}
          /\ \A a \in ev'.terminated :
               /\ isAlive[a] = "false" /\ a \in clients
               /\ readyState'[a] \in {"CLOSING", "CLOSED"}
          /\ \A b \in clients :
               isAlive[b] # "false" =>
                 /\ b \in clients' /\ b \notin ev'.terminated
                 /\ readyState'[b] = readyState[b]
          /\ principal' = principal
     /\ \A s \in Conn :
          readyState[s] \in {"CLOSING", "CLOSED"} =>
            /\ readyState'[s] \in {"CLOSING", "CLOSED"}
            /\ ev'.out[s] = << >>]_vars

\* C29 witness: a sweep evicted a member for which a generator call is
\* still in flight, and kept another member that is open
C29_Witness ==
  /\ ev.op = "heartbeat"
  /\ \E a \in ev.terminated :
       /\ \E i \in 1..Len(inflight) : inflight[i].ws = a
       /\ \E b \in clients : b # a /\ readyState[b] = "OPEN"

C31_VerifierOncePerHandshake ==
  [][/\ Len(ev'.auth) <= 1
     /\ ev'.auth # << >> =>
          /\ ev'.op = "connection"
          /\ readyState[ev'.s] = "NONE" /\ readyState'[ev'.s] # "NONE"
          /\ ev'.auth = <<CookieToken(RawCookies(ev'.cookie))>>
     /\ ev'.op # "connection" => ev'.auth = << >>]_vars

\* C31 witness: the verifier was asked once and said no; the handshake was
\* refused without a second call, an established session being registered
C31_Witness ==
  /\ ev.op = "connection" /\ Len(ev.auth) = 1
  /\ ev.closes = Unauthorized(ev.s)
  /\ clients # {}

\* C32 (as claimed): while no agent is set, runAgent rejects with "Agent
\* not initialized" and invokes no agent, so a valid chat frame is answered
\* with the error frame "Failed to process chat message" and its session
\* stays registered; with an agent set the same frame leads to an
\* invocation of that agent.
C32_ChatWithoutAgent ==
  [][\A s \in Conn :
      IsValidChat(ev', s) =>
        IF ~Truthy(agent)
        THEN /\ ev'.result = NotInitialized
             /\ inflight' = inflight
             /\ AnsweredWithError(ev', s, FailedMessage)
             /\ clients' = clients /\ readyState' = readyState
        ELSE /\ inflight' = Append(inflight, CallOf(ev', s))
             /\ ev'.out = NoOut]_vars

\* C32 (amended): while no agent is set, runAgent rejects with "Agent not
\* initialized" and invokes no agent; a valid chat frame is then answered
\* with the error frame "Failed to process chat message", without the
\* reason in it, if its session's transport is open, and with nothing if it
\* is closing; the Registry and the transports are unchanged; with an agent
\* set the same frame leads to an invocation of that agent, and nothing is
\* written until it completes.
C32_ChatWithoutAgentIfOpen ==
  [][\A s \in Conn :
      IsValidChat(ev', s) =>
        IF ~Truthy(agent)
        THEN /\ ev'.result = NotInitialized
             /\ inflight' = inflight
             /\ IF readyState[s] = "OPEN"
                THEN /\ AnsweredWithError(ev', s, FailedMessage)
                     /\ NoDetail(ev'.out[s][1], NotInitialized)
                ELSE ev'.out[s] = << >>
             /\ OthersSilent(ev', s)
             /\ clients' = clients /\ readyState' = readyState
        ELSE /\ inflight' = Append(inflight, CallOf(ev', s))
             /\ inflight'[Len(inflight')].agent = agent
             /\ ev'.result = ""
             /\ ev'.out = NoOut]_vars

\* C32 witness: a valid chat frame arrived while no agent was set and got
\* the generic error; its session is still an open member
C32_Witness ==
  /\ ev.op = "message" /\ ev.raw = ChatFrame
  /\ ev.result = NotInitialized /\ ~Truthy(agent)
  /\ AnsweredWithError(ev, ev.s, FailedMessage)
  /\ ev.s \in clients /\ readyState[ev.s] = "OPEN"

\* C33: with an agent set, runAgent(input, userId, threadId) invokes the
\* agent that is installed at that moment, once, with the input as the one
\* user message, user_id = userId in the context and thread_id = threadId
\* in the configuration; it returns the structuredResponse of what the
\* invocation resolves to, and a rejection of the invocation reaches the
\* caller as it is; setAgent installs the instance it is given.
C33_RunAgentInvokesCurrent ==
  [][/\ (ev'.op = "runAgent" /\ Truthy(agent)) =>
          /\ Len(ev'.invoked) = 1
          /\ ev'.invoked[1].agent = agent
          /\ ev'.invoked[1].request.messages =
               <<[role |-> "user", content |-> ev'.calls[1][1]]>>
          /\ ev'.invoked[1].config.context.user_id = ev'.calls[1][2]
          /\ ev'.invoked[1].config.configurable.thread_id = ev'.calls[1][3]
          /\ inflight' = Append(inflight, ev'.invoked[1])
          /\ ev'.settled = ""
     /\ (ev'.op = "runAgent" /\ ~Truthy(agent)) =>
          /\ ev'.invoked = << >> /\ inflight' = inflight
          /\ ev'.result = NotInitialized
     /\ ev'.op = "returned" =>
          /\ ev'.settled = "resolved"
          /\ ev'.result = Get(ev'.data, "structuredResponse")
     /\ ev'.op = "threw" =>
          /\ ev'.settled = "rejected" /\ ev'.result = ev'.reason
     /\ ev'.op = "setAgent" => agent' \in AgentInstances /\ agent' # agent]_vars

\* C33 witness: runAgent invoked the instance installed last while a call
\* made on the instance installed before is still in flight
C33_Witness ==
  /\ ev.op = "runAgent" /\ Len(ev.invoked) = 1
  /\ ev.invoked[1].agent = "agent-2" /\ agent = "agent-2"
  /\ Len(inflight) = 2 /\ inflight[1].agent = "agent-1"
  /\ ev.invoked[1].config.context.user_id = "admin"

\* C34: once shutdown() has returned no transport is open, in the Registry
\* or out of it, and no step writes a frame to any session: not the handling
\* of an inbound frame (pong, error), not a generator call completing
\* (chat_response, error), not broadcast or sendToUser; and no connection
\* is taken after it. shutdown() itself writes no frame.
C34_SilentAfterShutdown ==
  /\ [](wssState = "CLOSED" => \A s \in Conn : readyState[s] # "OPEN")
  /\ [][/\ wssState = "CLOSED" =>
             /\ ev'.out = NoOut /\ ev'.sendAfterClose = {}
             /\ ev'.op # "connection"
             /\ clients' \subseteq clients
        /\ ev'.op = "shutdown" => ev'.out = NoOut]_vars

\* C34 witness: after shutdown() a generator call of a session that is still
\* in the Registry resolved, and nothing was written
C34_Witness ==
  /\ wssState = "CLOSED"
  /\ ev.op = "resolved" /\ ev.s \in clients
  /\ readyState[ev.s] = "CLOSING"
  /\ ev.out = NoOut
  /\ Cardinality(clients) = 2

\* C35: a session enters the Registry only in its own handshake step, with
\* a principal, having never been accepted before; a session that was
\* removed (by close, transport error or heartbeat eviction) is never a
\* member again: a frame or pong handled for it afterwards may set its
\* liveness flag but leaves the Registry as it is.
C35_RegisteredOnlyByHandshake ==
  [][/\ \A s \in Conn :
          s \in clients' \ clients =>
            /\ IsConnection(ev', s)
            /\ readyState[s] = "NONE" /\ hist[s] = "none"
            /\ Truthy(principal'[s])
            /\ ev'.closes = {}
     /\ \A s \in Conn :
          (readyState[s] # "NONE" /\ s \notin clients) => s \notin clients'
     /\ ev'.op \in {"message", "pong"} => clients' = clients]_vars

\* C35 witness: a pong handled for a session that had been removed from the
\* Registry (eviction or transport error, its transport closing) set its
\* liveness flag and did not register it, another session being a member
C35_Witness ==
  /\ ev.op = "pong" /\ ev.s \notin clients
  /\ hist[ev.s] \in {"registeredSwept", "activeSwept", "active"}
  /\ handlers[ev.s] /\ readyState[ev.s] = "CLOSING"
  /\ isAlive[ev.s] = "true"
  /\ clients # {}

\* the type of the only frame written to s in the step, "" if not exactly one
ReplyType(e, s) ==
  IF Len(e.out[s]) = 1 THEN Get(e.out[s][1], "type") ELSE ""

\* C36: an inbound frame is answered at most once, on its own session: the
\* step that handles it either answers it (pong or error, one frame if the
\* transport is open, none if not) or leaves one generator call in flight
\* and writes nothing; the completion of a call ends that call and answers
\* it (chat_response when it resolved, error when it rejected, one frame if
\* the transport is open, none if not); no other session gets a frame.
C36_OneReplyPerFrame ==
  [][\A s \in Conn :
      /\ (ev'.op = "message" /\ ev'.s = s) =>
           /\ OthersSilent(ev', s)
           /\ Len(inflight') \in {Len(inflight), Len(inflight) + 1}
           /\ Len(inflight') = Len(inflight) + 1 =>
                /\ ev'.out[s] = << >>
                /\ inflight'[Len(inflight')].ws = s
           /\ Len(inflight') = Len(inflight) =>
                IF readyState[s] = "OPEN"
                THEN ReplyType(ev', s) \in {"pong", "error"}
                ELSE ev'.out[s] = << >>
      /\ IsCompletion(ev', s) =>
           /\ OthersSilent(ev', s)
           /\ Len(inflight') = Len(inflight) - 1
           /\ \E i \in 1..Len(inflight) :
                inflight[i].ws = s /\ inflight' = RemoveAt(inflight, i)
           /\ IF readyState[s] = "OPEN"
              THEN ReplyType(ev', s) =
                     IF ev'.op = "resolved" THEN "chat_response" ELSE "error"
              ELSE ev'.out[s] = << >>]_vars

\* C36 witness: a generator call resolved for an open session while another
\* member was open: one chat_response on that session, the call is over
C36_Witness ==
  /\ ev.op = "resolved" /\ readyState[ev.s] = "OPEN"
  /\ ReplyType(ev, ev.s) = "chat_response"
  /\ inflight = << >>
  /\ \E o \in clients : o # ev.s /\ readyState[o] = "OPEN"

\* C37: the first frame written to a session is its connected frame: a
\* session without listeners (not accepted yet, or refused) is not in the
\* Registry; the step that registers it writes the connected frame to it
\* and nothing else; every other frame written to a session (pong, error,
\* chat_response, broadcast or addressed frame) is written in a later step,
\* to a session registered before.
C37_WelcomeFirst ==
  /\ [](\A s \in Conn :
          ~handlers[s] => (s \notin clients /\ hist[s] = "none"))
  /\ [][\A s \in Conn :
         /\ (~handlers[s] /\ handlers'[s]) =>
               /\ IsConnection(ev', s)
               /\ Len(ev'.out[s]) = 1
               /\ Get(ev'.out[s][1], "type") = "connected"
         /\ (~handlers[s] /\ ~handlers'[s]) => ev'.out[s] = << >>
         /\ (handlers[s] /\ ev'.out[s] # << >>) =>
               /\ ~IsConnection(ev', s)
               /\ \A i \in 1..Len(ev'.out[s]) :
                    Get(ev'.out[s][i], "type") # "connected"]_vars

\* C37 witness: a broadcast reached a session registered earlier while a
\* connection whose handshake was refused got nothing
C37_Witness ==
  /\ ev.op = "broadcast"
  /\ \E s \in Conn : handlers[s] /\ ev.out[s] # << >>
  /\ \E o \in Conn : readyState[o] # "NONE" /\ ~handlers[o]
                     /\ ev.out[o] = << >>

\* a generator call made for session s is in flight
HasPending(s) == \E i \in 1..Len(inflight) : inflight[i].ws = s

\* C38: a generator call in flight does not keep its session alive: a
\* member with a call in flight whose last sign of life (the chat frame
\* included) came before the previous sweep is evicted by the sweep, and
\* one whose last sign of life came after it is probed; the sweep leaves the
\* calls in flight; when the call of the evicted session completes, nothing
\* is written and the session stays out of the Registry.
C38_PendingCallIsNotLiveness ==
  [][\A s \in Conn :
      /\ (ev'.op = "heartbeat" /\ s \in clients /\ HasPending(s)) =>
           /\ inflight' = inflight
           /\ hist[s] = "active" =>
                /\ s \in clients' /\ s \in ev'.pings
                /\ isAlive'[s] = "false" /\ hist'[s] = "activeSwept"
           /\ hist[s] = "activeSwept" =>
                /\ s \notin clients' /\ s \in ev'.terminated
                /\ s \notin ev'.pings
                /\ readyState'[s] = "CLOSING"
      /\ (IsCompletion(ev', s) /\ hist[s] = "activeSwept"
          /\ s \notin clients) =>
           /\ ev'.out = NoOut /\ ev'.sendAfterClose = {}
           /\ s \notin clients']_vars

\* C38 witness: the call of a session that sent a chat frame and was then
\* probed and evicted resolved afterwards, and nothing was written
C38_Witness ==
  /\ ev.op = "resolved" /\ ev.result = "Hello, human!"
  /\ hist[ev.s] = "activeSwept" /\ ev.s \notin clients
  /\ readyState[ev.s] = "CLOSING"
  /\ ev.out = NoOut

\* the tokens a verdict is compared over
AnyTokens == {Undefined, "", "valid-token", "forged-token"}

====
